---- MODULE Spec2Model ----
(***************************************************************************)
(* State-machine model of monocle/spawns.py: the spawn registry            *)
(* (BaseSpawns and its two variants Spawns / MoreSpawns), its altitude     *)
(* cache and its pickle snapshot.                                          *)
(*                                                                         *)
(* Coordinates are integers in tenths of a degree: <<10, 20>> is the       *)
(* point (1.0, 2.0).  Python's None is the empty tuple.                     *)
(***************************************************************************)
EXTENDS Integers, Sequences, FiniteSets, TLC

VARIABLES
    conf,           \* the sanitized configuration of this run (conf.*)
    known,          \* self.known: OrderedDict, a sequence of <<point, value>>
    despawn_times,  \* self.despawn_times: {spawn_id: despawn_seconds}
    unknown,        \* self.unknown: set of points
    cell_points,    \* MoreSpawns.cell_points: set of points
    altitudes,      \* self.altitudes: {rounded point: altitude}
    file,           \* the 'spawns' pickle on disk
    pc,             \* "idle", or "update" while update() iterates the query
    upd,            \* update()'s locals: alts, known, the rows already read
    gen,            \* the frame of the mystery_gen() generator being consumed
    hist,           \* the registry as it was when the update() in progress began
    last            \* the call made last, its arguments and its result

vars == <<conf, known, despawn_times, unknown, cell_points, altitudes,
          file, pc, upd, gen, hist, last>>

\* None; an optional number n is <<n>>
None == <<>>

----------------------------------------------------------------------------
(* Inputs *)

PointA == <<10, 20>>
PointB == <<30, 40>>
PointC == <<50, 60>>
Points == {PointA, PointB, PointC}

\* spawn identifiers of the store; the store keeps one point per identifier
Ids == {1, 2, 3}

PointOf(spawn_id) ==
    CASE spawn_id = 1 -> PointA
      [] spawn_id = 2 -> PointB
      [] OTHER        -> PointC

\* rows the store's query yields per update() (distinct spawn identifiers)
MaxRows == 2

\* conf.LAST_MIGRATION of the runs modelled
LastMigration == 10

\* a db.Spawnpoint row; timing is <<duration, despawn_time>>
Row(spawn_id, updated, timing, alt) ==
    [spawn_id |-> spawn_id,
     lat |-> PointOf(spawn_id)[1], lon |-> PointOf(spawn_id)[2],
     alt |-> alt, updated |-> updated,
     duration |-> timing[1], despawn_time |-> timing[2]]

Fresh == <<LastMigration + 5>>

\* full-hour and half-hour rows
Timings == {<<60, 1800>>, <<30, 0>>, <<30, 1800>>, <<30, 3599>>}

\* observation times (seconds since the epoch)
Seens == {7200, 7500, 9000}

\* values of time() when after_last() runs
Nows == {7250, 9700}

----------------------------------------------------------------------------
(* The configuration and the bounds module *)

Conf(more, boundaries, stay, migration, precision, engine) ==
    [MORE_POINTS |-> more, BOUNDARIES |-> boundaries,
     STAY_WITHIN_MAP |-> stay, LAST_MIGRATION |-> migration,
     ALT_PRECISION |-> precision, DB_ENGINE |-> engine]

\* bounds.south / north / west / east
South == 0
North == 40
West == 0
East == 50

InRectangle(point) ==
    /\ point[1] >= South /\ point[1] <= North
    /\ point[2] >= West  /\ point[2] <= East

\* `point in bounds` when conf.BOUNDARIES is a polygon
InBounds(point) == InRectangle(point) /\ point[1] + point[2] <= 50

\* hash(bounds)
BoundsHash(c) == IF c.BOUNDARIES THEN "polygon" ELSE "rectangle"

\* sha256(conf.DB_ENGINE.encode()).digest()
DbHash(c) == <<"sha256", c.DB_ENGINE>>

ClassVersion == 2

----------------------------------------------------------------------------
(* Dictionaries: an OrderedDict is a sequence of <<key, value>> in insertion
   order, a dict is a function *)

Keys(d) == {d[i][1] : i \in DOMAIN d}

\* d[k] = v: a present key keeps its position
SetItem(d, k, v) ==
    IF k \in Keys(d)
    THEN [i \in DOMAIN d |-> IF d[i][1] = k THEN <<k, v>> ELSE d[i]]
    ELSE Append(d, <<k, v>>)

EmptyDict == <<>>

\* f[k] = v on a dict
Put(f, k, v) == [x \in DOMAIN f \cup {k} |-> IF x = k THEN v ELSE f[x]]

Front(s) == SubSeq(s, 1, Len(s) - 1)

SortedItems_Unsorted(items) == items

\* x inserted behind every item whose seconds are not greater
RECURSIVE Insert(_, _)
Insert(x, s) ==
    IF s = <<>> THEN <<x>>
    ELSE IF s[Len(s)][2][2] <= x[2][2] THEN Append(s, x)
    ELSE Append(Insert(x, Front(s)), s[Len(s)])

\* sorted(known.items(), key=lambda k: k[1][1]): stable
RECURSIVE SortedItems(_)
SortedItems(items) ==
    IF items = <<>> THEN <<>>
    ELSE Insert(items[Len(items)], SortedItems(Front(items)))

\* utils.round_coords on one coordinate in tenths: Python's round(x, precision),
\* halves to the even neighbour
RoundCoord(x, precision) ==
    IF precision >= 1 THEN x
    ELSE LET lo == (x \div 10) * 10
             r  == x % 10
         IN  IF r < 5 THEN lo
             ELSE IF r > 5 THEN lo + 10
             ELSE IF (lo \div 10) % 2 = 0 THEN lo ELSE lo + 10

RoundCoords(point, precision) ==
    <<RoundCoord(point[1], precision), RoundCoord(point[2], precision)>>

\* utils.get_current_hour(now=seen)
GetCurrentHour(seen) == seen - (seen % 3600)

----------------------------------------------------------------------------
(* The registry *)

Call(op, args, ret) == [op |-> op, args |-> args, ret |-> ret]

UpdLocals(alts) == [alts |-> alts, known |-> EmptyDict, rows |-> <<>>]

\* no generator is being consumed
NoGenerator == [pc |-> "none"]

\* no update() is in progress
NoHistory == [pc |-> "idle"]

\* the four collections of the registry
Registry ==
    [known |-> known, despawn_times |-> despawn_times,
     unknown |-> unknown, cell_points |-> cell_points]

\* BaseSpawns.__init__ and the variant's __init__ under configuration c,
\* the pickle on disk being f
Construct(c, f) ==
    /\ conf = c
    /\ known = EmptyDict
    /\ despawn_times = EmptyDict
    /\ unknown = {}
    /\ cell_points = {}
    /\ altitudes = EmptyDict
    /\ file = f
    /\ pc = "idle"
    /\ upd = UpdLocals(FALSE)
    /\ gen = NoGenerator
    /\ hist = NoHistory
    /\ last = Call("init", <<>>, None)

NoFile == "FileNotFoundError"

\* update(), lines 41-57: the locals and the query
UpdateBegin ==
    /\ pc = "idle"
    /\ pc' = "update"
    /\ upd' = UpdLocals(altitudes = EmptyDict)
    /\ hist' = [pc |-> "update", before |-> Registry]
    /\ last' = Call("update:running", <<>>, None)
    /\ UNCHANGED <<conf, known, despawn_times, unknown, cell_points,
                   altitudes, file, gen>>

\* the query's filter on the rectangle, lines 52-56
Queried(c, spawn) ==
    (c.BOUNDARIES \/ c.STAY_WITHIN_MAP) => InRectangle(<<spawn.lat, spawn.lon>>)

\* line 68
Stale(c, spawn) ==
    \/ spawn.updated = None
    \/ spawn.updated[1] = 0
    \/ spawn.updated[1] <= c.LAST_MIGRATION

SpawnTime_NoWrap(spawn) ==
    IF spawn.duration = 60 THEN spawn.despawn_time
    ELSE spawn.despawn_time + 1800

\* lines 72-75
SpawnTime(spawn) ==
    IF spawn.duration = 60 THEN spawn.despawn_time
    ELSE (spawn.despawn_time + 1800) % 3600

StoredDespawn_Shifted(spawn) == SpawnTime(spawn)

\* line 77
StoredDespawn(spawn) == spawn.despawn_time

\* a row passes the query's filter and the boundary test of lines 62-63
Survives(c, spawn) ==
    /\ Queried(c, spawn)
    /\ c.BOUNDARIES => InBounds(<<spawn.lat, spawn.lon>>)

\* update(), lines 58-78: one row of the query
UpdateRow(spawn) ==
    LET point == <<spawn.lat, spawn.lon>>
        read  == [upd EXCEPT !.rows = Append(@, spawn)]
    IN
    /\ pc = "update"
    /\ Len(upd.rows) < MaxRows
    /\ \A i \in DOMAIN upd.rows : upd.rows[i].spawn_id # spawn.spawn_id
    /\ IF ~Survives(conf, spawn)
       THEN /\ upd' = read
            /\ UNCHANGED <<altitudes, unknown, despawn_times>>
       ELSE /\ altitudes' =
                 IF upd.alts /\ spawn.alt # None
                 THEN Put(altitudes, RoundCoords(point, conf.ALT_PRECISION),
                          spawn.alt[1])
                 ELSE altitudes
            /\ IF Stale(conf, spawn)
               THEN /\ unknown' = unknown \cup {point}
                    /\ upd' = read
                    /\ UNCHANGED despawn_times
               ELSE /\ despawn_times' =
                         Put(despawn_times, spawn.spawn_id, StoredDespawn(spawn))
                    /\ upd' = [read EXCEPT !.known =
                         SetItem(@, point, <<spawn.spawn_id, SpawnTime(spawn)>>)]
                    /\ UNCHANGED unknown
    /\ UNCHANGED <<conf, known, cell_points, file, pc, last,
                   gen, hist>>

\* update(), lines 79-82: the sorted mapping replaces self.known
\* bulk is what get_all_altitudes(bound) answers
UpdateEnd(bulk) ==
    /\ pc = "update"
    /\ known' = SortedItems(upd.known)
    /\ altitudes' = IF altitudes = EmptyDict THEN bulk ELSE altitudes
    /\ pc' = "idle"
    /\ upd' = UpdLocals(FALSE)
    /\ hist' = NoHistory
    /\ last' = Call("update", upd.rows, None)
    /\ UNCHANGED <<conf, despawn_times, unknown, cell_points, file, gen>>

More == conf.MORE_POINTS

\* Spawns.add_known / MoreSpawns.add_known
AddKnown(spawn_id, despawn_time, point) ==
    /\ despawn_times' = Put(despawn_times, spawn_id, despawn_time)
    /\ known' = IF More THEN SetItem(known, point, None) ELSE known
    /\ unknown' = unknown \ {point}
    /\ cell_points' = IF More THEN cell_points \ {point} ELSE cell_points
    /\ last' = Call("add_known", <<spawn_id, despawn_time, point>>, None)
    /\ UNCHANGED <<conf, altitudes, file, pc, upd,
                   gen, hist>>

\* Spawns.add_unknown / MoreSpawns.add_unknown
AddUnknown(point) ==
    /\ unknown' = unknown \cup {point}
    /\ cell_points' = IF More THEN cell_points \ {point} ELSE cell_points
    /\ last' = Call("add_unknown", <<point>>, None)
    /\ UNCHANGED <<conf, known, despawn_times, altitudes, file, pc, upd,
                   gen, hist>>

HavePointOf_NoKnown(point) == point \in cell_points \cup unknown

\* MoreSpawns.have_point
HavePointOf(point) ==
    point \in cell_points \cup Keys(known) \cup unknown

\* the scan worker's `spawns.cell_points.add(point)` for a point of a map cell
\* the registry has not seen
AddCellPoint(point) ==
    /\ More
    /\ ~HavePointOf(point)
    /\ cell_points' = cell_points \cup {point}
    /\ last' = Call("cell_points.add", <<point>>, None)
    /\ UNCHANGED <<conf, known, despawn_times, unknown, altitudes, file, pc, upd,
                   gen, hist>>

\* BaseSpawns.after_last at time() = now
AfterLastOf(now) ==
    IF known = EmptyDict THEN FALSE                  \* StopIteration
    ELSE LET value == known[Len(known)][2]
         IN  IF value = None THEN FALSE              \* TypeError
             ELSE now % 3600 > value[2]

AfterLast(now) ==
    /\ last' = Call("after_last", <<now>>, AfterLastOf(now))
    /\ UNCHANGED <<conf, known, despawn_times, unknown, cell_points,
                   altitudes, file, pc, upd,
                   gen, hist>>

GetDespawnTimeOf_NextCycle(spawn_id, seen) ==
    IF spawn_id \notin DOMAIN despawn_times THEN None
    ELSE <<despawn_times[spawn_id] + GetCurrentHour(seen) + 3600>>

GetDespawnTimeOf_NoWrap(spawn_id, seen) ==
    IF spawn_id \notin DOMAIN despawn_times THEN None
    ELSE <<despawn_times[spawn_id] + GetCurrentHour(seen)>>

\* BaseSpawns.get_despawn_time
GetDespawnTimeOf(spawn_id, seen) ==
    IF spawn_id \notin DOMAIN despawn_times THEN None    \* KeyError
    ELSE LET despawn_time == despawn_times[spawn_id] + GetCurrentHour(seen)
         IN  IF seen > despawn_time THEN <<despawn_time + 3600>>
             ELSE <<despawn_time>>

GetDespawnTime(spawn_id, seen) ==
    /\ last' = Call("get_despawn_time", <<spawn_id, seen>>,
                    GetDespawnTimeOf(spawn_id, seen))
    /\ UNCHANGED <<conf, known, despawn_times, unknown, cell_points,
                   altitudes, file, pc, upd,
                   gen, hist>>

\* Spawns.cells_count (the attribute set to 0) / MoreSpawns.cells_count
CellsCount == IF More THEN Cardinality(cell_points) ELSE 0

TotalLengthOf_KnownPoints == Len(known) + Cardinality(unknown) + CellsCount

\* BaseSpawns.total_length
TotalLengthOf ==
    Cardinality(DOMAIN despawn_times) + Cardinality(unknown) + CellsCount

TotalLength ==
    /\ last' = Call("total_length", <<>>, TotalLengthOf)
    /\ UNCHANGED <<conf, known, despawn_times, unknown, cell_points,
                   altitudes, file, pc, upd,
                   gen, hist>>

\* Spawns.items / MoreSpawns.items: the items of self.known as the call finds it
Items ==
    /\ last' = Call("items", <<>>, known)
    /\ UNCHANGED <<conf, known, despawn_times, unknown, cell_points,
                   altitudes, file, pc, upd, gen, hist>>

HavePoint(point) ==
    /\ More
    /\ last' = Call("have_point", <<point>>, HavePointOf(point))
    /\ UNCHANGED <<conf, known, despawn_times, unknown, cell_points,
                   altitudes, file, pc, upd,
                   gen, hist>>

\* a set iterated in some order
Orders(S) ==
    {s \in [1..Cardinality(S) -> S] : \A i, j \in DOMAIN s : s[i] = s[j] => i = j}

MysteryGenOf_UnknownOnly(first, second) == first

\* what mystery_gen yields, run to its end: the copy of unknown, then (MoreSpawns)
\* the copy of cell_points
MysteryGenOf(first, second) == IF More THEN first \o second ELSE first

MysteryGen ==
    /\ \E first \in Orders(unknown), second \in Orders(cell_points) :
           last' = Call("mystery_gen", <<>>, MysteryGenOf(first, second))
    /\ UNCHANGED <<conf, known, despawn_times, unknown, cell_points,
                   altitudes, file, pc, upd,
                   gen, hist>>

\* mystery_gen(): a generator object whose body has not run yet
MysteryGenNew ==
    /\ gen' = [pc |-> "created"]
    /\ last' = Call("mystery_gen:new", <<>>, None)
    /\ UNCHANGED <<conf, known, despawn_times, unknown, cell_points,
                   altitudes, file, pc, upd, hist>>

\* the frame once the body reaches its for statement: the copies of the sets
\* and an iterator over them, in the order the copies iterate
Entered(first, second) ==
    [pc |-> "running", unknown |-> unknown,
     cell_points |-> IF More THEN cell_points ELSE {},
     rest |-> MysteryGenOf(first, second), yielded |-> <<>>]

Pending_Live(frame) ==
    SelectSeq(frame.rest, LAMBDA point : point \in unknown \cup cell_points)

\* what the iterator over the copies still holds, lines 181 and 213
Pending(frame) == frame.rest

\* next() on the generator: the first one runs the body up to its first
\* yield, taking the copies; the iteration ends in StopIteration
MysteryGenNext ==
    /\ gen.pc \in {"created", "running"}
    /\ \E frame \in (IF gen.pc = "running" THEN {gen}
                      ELSE {Entered(first, second) :
                               first \in Orders(unknown),
                               second \in Orders(cell_points)}) :
           LET pending == Pending(frame) IN
           IF pending = <<>>
           THEN /\ gen' = [frame EXCEPT !.pc = "done", !.rest = <<>>]
                /\ last' = Call("mystery_gen:stop", <<>>, None)
           ELSE /\ gen' = [frame EXCEPT !.rest = Tail(pending),
                                        !.yielded = Append(@, Head(pending))]
                /\ last' = Call("mystery_gen:next", <<>>, Head(pending))
    /\ UNCHANGED <<conf, known, despawn_times, unknown, cell_points,
                   altitudes, file, pc, upd, hist>>

----------------------------------------------------------------------------
(* The altitude cache *)

\* random_altitude(): some altitude of the configured range
RandomAltitudes == {390, 400}

\* uniform(alt - randomize, alt + randomize)
Uniform(lo, hi) == lo..hi

FetchFailures == {"IndexError", "KeyError", "Exception"}

AfterFetch_CachesAll(key, fetch, alt) == Put(altitudes, key, alt)

\* the cache once the fetch of lines 91-102 ended and alt is returned
AfterFetch(key, fetch, alt) ==
    IF fetch[1] = "ok" THEN Put(altitudes, key, alt) ELSE altitudes

\* BaseSpawns.get_altitude; fetch is how utils.get_altitude ends when it is
\* called: <<"ok", alt>> or <<failure>>
GetAltitude(point, randomize, fetch) ==
    LET key == RoundCoords(point, conf.ALT_PRECISION) IN
    /\ IF key \in DOMAIN altitudes
       THEN /\ \E alt \in (IF randomize # 0
                           THEN Uniform(altitudes[key] - randomize,
                                        altitudes[key] + randomize)
                           ELSE {altitudes[key]}) :
                   last' = Call("get_altitude", <<point, randomize, "hit">>, alt)
            /\ UNCHANGED altitudes
       ELSE \E alt \in (IF fetch[1] = "ok" THEN {fetch[2]} ELSE RandomAltitudes) :
                /\ altitudes' = AfterFetch(key, fetch, alt)
                /\ last' = Call("get_altitude", <<point, randomize, fetch[1]>>, alt)
    /\ UNCHANGED <<conf, known, despawn_times, unknown, cell_points, file, pc, upd,
                   gen, hist>>

----------------------------------------------------------------------------
(* The snapshot *)

Without(state, field) == [k \in DOMAIN state \ {field} |-> state[k]]

\* what pickle() dumps: __dict__ without log and cells_count, and the
\* compatibility record
PickledState ==
    LET base == [known |-> known, despawn_times |-> despawn_times,
                 unknown |-> unknown, altitudes |-> altitudes,
                 cell_points |-> cell_points,
                 class_version |-> ClassVersion, db_hash |-> DbHash(conf),
                 bounds_hash |-> BoundsHash(conf),
                 alt_precision |-> conf.ALT_PRECISION,
                 last_migration |-> conf.LAST_MIGRATION]
    IN  IF More THEN base ELSE Without(base, "cell_points")

\* BaseSpawns.pickle
Pickle ==
    /\ pc = "idle"
    /\ file' = [kind |-> "dict", state |-> PickledState]
    /\ last' = Call("pickle", <<>>, None)
    /\ UNCHANGED <<conf, known, despawn_times, unknown, cell_points,
                   altitudes, pc, upd,
                   gen, hist>>

\* the all(...) of lines 126-129 ends in a KeyError
MissesKey(state) ==
    ~ ({"class_version", "db_hash", "bounds_hash", "last_migration"}
          \subseteq DOMAIN state)

\* lines 126-129
Matches(state) ==
    /\ state.class_version = ClassVersion
    /\ state.db_hash = DbHash(conf)
    /\ state.bounds_hash = BoundsHash(conf)
    /\ state.last_migration = conf.LAST_MIGRATION

Loaded_KeepsCurrent(state, field, current) == current

\* self.__dict__.update(state) on one attribute
Loaded(state, field, current) ==
    IF field \in DOMAIN state THEN state[field] ELSE current

Reseeded_KeepsSnapshot(state, bulk) == Loaded(state, "altitudes", altitudes)

\* lines 130-133: the snapshot's altitudes, or what get_all_altitudes()
\* answers when the precision changed
Reseeded(state, bulk) ==
    IF state.alt_precision # conf.ALT_PRECISION THEN bulk
    ELSE Loaded(state, "altitudes", altitudes)

\* the variant's cell_points once unpickle() returns: Spawns deletes it
LoadedCells(state) ==
    IF More THEN Loaded(state, "cell_points", cell_points) ELSE {}

\* BaseSpawns.unpickle and the variant's unpickle; bulk is what
\* get_all_altitudes() answers, recorded in the call when it is asked
Unpickle(bulk) ==
    /\ pc = "idle"
    /\ IF file.kind # "dict" \/ MissesKey(file.state) \/ ~Matches(file.state)
       THEN \* FileNotFoundError, TypeError, KeyError or a changed configuration
            /\ last' = Call("unpickle", <<>>, FALSE)
            /\ UNCHANGED <<known, despawn_times, unknown, cell_points, altitudes>>
       ELSE LET state == file.state IN
            /\ known' = Loaded(state, "known", known)
            /\ despawn_times' = Loaded(state, "despawn_times", despawn_times)
            /\ unknown' = Loaded(state, "unknown", unknown)
            /\ cell_points' = LoadedCells(state)
            /\ IF "alt_precision" \notin DOMAIN state
               THEN \* KeyError on line 131, after line 130 loaded the state
                    /\ altitudes' = Loaded(state, "altitudes", altitudes)
                    /\ last' = Call("unpickle", <<>>, FALSE)
               ELSE /\ altitudes' = Reseeded(state, bulk)
                    /\ last' = Call("unpickle",
                                    IF state.alt_precision # conf.ALT_PRECISION
                                    THEN <<bulk>> ELSE <<>>, TRUE)
    /\ UNCHANGED <<conf, file, pc, upd,
                   gen, hist>>

\* the process starts again under configuration c: a registry as constructed,
\* the pickle as the last run left it
Restart(c) ==
    /\ pc = "idle"
    /\ c.MORE_POINTS = conf.MORE_POINTS
    /\ conf' = c
    /\ known' = EmptyDict
    /\ despawn_times' = EmptyDict
    /\ unknown' = {}
    /\ cell_points' = {}
    /\ altitudes' = EmptyDict
    /\ gen' = NoGenerator
    /\ last' = Call("init", <<>>, None)
    /\ UNCHANGED <<file, pc, upd, hist>>

----------------------------------------------------------------------------
(* The registry serving its callers: reconcile, the incremental mutations,
   the membership queries *)

BaseConf(more) == Conf(more, FALSE, FALSE, LastMigration, 0, "sqlite")

NoPickle == [kind |-> NoFile]

\* the store's rows: each spawn with fresh timing, or never updated
BucketRows == {Row(i, u, <<60, 1800>>, None) : i \in Ids, u \in {None, Fresh}}

\* add_known for a spawn the store has and for a new one
KnownArgs == {<<1, 300, PointA>>, <<3, 300, PointC>>}

Init == \E more \in BOOLEAN : Construct(BaseConf(more), NoPickle)

Update ==
    \/ UpdateBegin
    \/ \E spawn \in BucketRows : UpdateRow(spawn)
    \/ UpdateEnd(EmptyDict)

\* the caller calls between two reconciles
Idle == pc = "idle"

Next ==
    \/ Update
    \/ Idle /\ \E a \in KnownArgs : AddKnown(a[1], a[2], a[3])
    \/ Idle /\ \E point \in Points : AddUnknown(point)
    \/ Idle /\ \E point \in Points : AddCellPoint(point)
    \/ Idle /\ \E point \in Points : HavePoint(point)
    \/ Idle /\ MysteryGen
    \/ Idle /\ TotalLength

Spec == Init /\ [][Next]_vars

----------------------------------------------------------------------------
(* Timing: reconcile under every boundary configuration, add_known, and the
   queries on despawn seconds *)

TimingConfs ==
    {Conf(more, b[1], b[2], LastMigration, 0, "sqlite") :
        more \in BOOLEAN,
        b \in {<<FALSE, FALSE>>, <<FALSE, TRUE>>, <<TRUE, FALSE>>}}

TimingRows ==
    {Row(i, Fresh, t, None) : i \in {1, 2}, t \in Timings}
      \cup {Row(3, u, <<60, 1800>>, None) : u \in {Fresh, <<LastMigration>>}}

InitTiming == \E c \in TimingConfs : Construct(c, NoPickle)

UpdateTiming ==
    \/ UpdateBegin
    \/ \E spawn \in TimingRows : UpdateRow(spawn)
    \/ UpdateEnd(EmptyDict)

NextTiming ==
    \/ UpdateTiming
    \/ Idle /\ \E a \in KnownArgs : AddKnown(a[1], a[2], a[3])
    \/ Idle /\ \E now \in Nows : AfterLast(now)
    \/ Idle /\ \E spawn_id \in {1, 3}, seen \in Seens :
                   GetDespawnTime(spawn_id, seen)

SpecTiming == InitTiming /\ [][NextTiming]_vars

----------------------------------------------------------------------------
(* The altitude cache: reconcile seeds it, get_altitude fills it *)

AltitudeConfs ==
    {Conf(FALSE, FALSE, FALSE, LastMigration, precision, "sqlite") :
        precision \in {0, 1}}

AltitudeRows == {Row(1, Fresh, <<60, 1800>>, <<12>>), Row(2, None, <<60, 1800>>, None)}

\* utils.get_all_altitudes: what the bulk altitude query may answer
BulkAltitudes == {EmptyDict, (PointB :> 30)}

\* points asked for: (1.0, 2.0), (1.2, 1.8), (1.5, 2.5), (3.0, 4.0)
AltitudePoints == {<<10, 20>>, <<12, 18>>, <<15, 25>>, <<30, 40>>}

Fetches == {<<"ok", 55>>} \cup {<<failure>> : failure \in FetchFailures}

InitAltitude == \E c \in AltitudeConfs : Construct(c, NoPickle)

UpdateAltitude ==
    \/ UpdateBegin
    \/ \E spawn \in AltitudeRows : UpdateRow(spawn)
    \/ \E bulk \in BulkAltitudes : UpdateEnd(bulk)

NextAltitude ==
    \/ UpdateAltitude
    \/ Idle /\ \E point \in AltitudePoints, randomize \in {0, 2},
                   fetch \in Fetches :
                   GetAltitude(point, randomize, fetch)

SpecAltitude == InitAltitude /\ [][NextAltitude]_vars

----------------------------------------------------------------------------
(* The snapshot across runs: pickle, restart under the same or a changed
   configuration, unpickle *)

\* the configurations of a run: the base one, and one field of the
\* compatibility record changed
SnapshotConfs(more) ==
    {BaseConf(more),
     Conf(more, TRUE, FALSE, LastMigration, 0, "sqlite"),
     Conf(more, FALSE, FALSE, LastMigration, 1, "sqlite")}

\* a snapshot an earlier run left under the base configuration
OldState ==
    [known |-> <<<<PointA, <<1, 1799>>>>>>, despawn_times |-> (1 :> 3599),
     unknown |-> {PointB}, altitudes |-> (PointA :> 12),
     cell_points |-> {PointC},
     class_version |-> ClassVersion, db_hash |-> DbHash(BaseConf(FALSE)),
     bounds_hash |-> BoundsHash(BaseConf(FALSE)),
     alt_precision |-> 0, last_migration |-> LastMigration]

\* the pickle a run may find: none, not a dict, an obsolete class version,
\* another store, an earlier migration, a dict without alt_precision, a dict
\* without class_version
OldPickles ==
    {NoPickle, [kind |-> "list"],
     [kind |-> "dict", state |-> [OldState EXCEPT !.class_version = 1]],
     [kind |-> "dict", state |->
         [OldState EXCEPT !.db_hash = <<"sha256", "postgres">>]],
     [kind |-> "dict", state |->
         [OldState EXCEPT !.last_migration = LastMigration - 5]],
     [kind |-> "dict", state |-> Without(OldState, "alt_precision")],
     [kind |-> "dict", state |-> Without(OldState, "class_version")]}

SnapshotRows == {Row(1, Fresh, <<30, 3599>>, <<12>>)}

InitSnapshot ==
    \E more \in BOOLEAN, f \in OldPickles : Construct(BaseConf(more), f)

UpdateSnapshot ==
    \/ UpdateBegin
    \/ \E spawn \in SnapshotRows : UpdateRow(spawn)
    \/ UpdateEnd(PointB :> 30)

NextSnapshot ==
    \/ UpdateSnapshot
    \/ Idle /\ AddKnown(3, 300, PointC)
    \/ Idle /\ AddUnknown(PointC)
    \/ Idle /\ AddCellPoint(PointB)
    \/ Pickle
    \/ \E bulk \in BulkAltitudes : Unpickle(bulk)
    \/ \E c \in SnapshotConfs(More) : Restart(c)

SpecSnapshot == InitSnapshot /\ [][NextSnapshot]_vars

----------------------------------------------------------------------------
(* Reconcile running next to the callers: update() runs on its own thread,
   one loop iteration at a time, while the scan workers read known and make
   at most one add_known / add_unknown call per reconcile *)

\* spawn 1 at second 1800, spawn 2 at 1799 once shifted, spawn 3 stale
ConcurrentRows ==
    {Row(1, Fresh, <<60, 1800>>, None), Row(2, Fresh, <<30, 3599>>, None),
     Row(3, <<LastMigration>>, <<60, 1800>>, None)}

\* no call was made yet since the reconcile in progress began
FirstCall == pc = "idle" \/ last.op = "update:running"

InitConcurrent == \E more \in BOOLEAN : Construct(BaseConf(more), NoPickle)

UpdateConcurrent ==
    \/ UpdateBegin
    \/ \E spawn \in ConcurrentRows : UpdateRow(spawn)
    \/ UpdateEnd(EmptyDict)

NextConcurrent ==
    \/ UpdateConcurrent
    \/ FirstCall /\ AddKnown(3, 300, PointC)
    \/ FirstCall /\ AddUnknown(PointC)
    \/ Items
    \/ AfterLast(9700)
    \/ \E point \in {PointA, PointC} : HavePoint(point)

SpecConcurrent == InitConcurrent /\ [][NextConcurrent]_vars

----------------------------------------------------------------------------
(* A worker consuming mystery_gen() element by element while the registry
   is mutated between two elements *)

InitIteration == \E more \in BOOLEAN : Construct(BaseConf(more), NoPickle)

NextIteration ==
    \/ MysteryGenNew
    \/ MysteryGenNext
    \/ \E a \in KnownArgs : AddKnown(a[1], a[2], a[3])
    \/ \E point \in Points : AddUnknown(point)
    \/ \E point \in Points : AddCellPoint(point)

SpecIteration == InitIteration /\ [][NextIteration]_vars

----------------------------------------------------------------------------
(* Claims *)

\* the number of buckets a point is in
BucketsOf(point) ==
    (IF point \in Keys(known) THEN 1 ELSE 0)
      + (IF point \in unknown THEN 1 ELSE 0)
      + (IF More /\ point \in cell_points THEN 1 ELSE 0)

\* C1: a point passed to add_known or add_unknown is in exactly one bucket
\* (known, unknown, and cell_points in the extended variant) when the call
\* returns.
C1_BucketExclusivity ==
    last.op \in {"add_known", "add_unknown"}
        => BucketsOf(last.args[Len(last.args)]) = 1

\* the snapshot holds every attribute of this variant and the whole
\* compatibility record
Complete(state) ==
    /\ {"known", "despawn_times", "unknown", "altitudes", "class_version",
        "db_hash", "bounds_hash", "last_migration", "alt_precision"}
          \subseteq DOMAIN state
    /\ More <=> "cell_points" \in DOMAIN state

\* the snapshot was taken under the configuration of this run
SameConfiguration(state) ==
    /\ state.class_version = ClassVersion
    /\ state.db_hash = DbHash(conf)
    /\ state.bounds_hash = BoundsHash(conf)
    /\ state.last_migration = conf.LAST_MIGRATION
    /\ state.alt_precision = conf.ALT_PRECISION

Restored(state) ==
    /\ known = state.known
    /\ despawn_times = state.despawn_times
    /\ unknown = state.unknown
    /\ altitudes = state.altitudes
    /\ More => cell_points = state.cell_points

C2_Unpickled ==
    (/\ last.op = "unpickle"
     /\ file.kind = "dict"
     /\ Complete(file.state)
     /\ SameConfiguration(file.state))
        => last.ret = TRUE /\ Restored(file.state)

C2_Pickled ==
    (last'.op = "pickle" /\ last' # last)
        => /\ UNCHANGED <<known, despawn_times, unknown, cell_points, altitudes>>
           /\ file'.kind = "dict"
           /\ Complete(file'.state)
           /\ SameConfiguration(file'.state)
           /\ Restored(file'.state)

\* C2: pickle() writes the registry as it is, under the configuration of the
\* run, and leaves it unchanged; unpickle() of a snapshot taken under the
\* same configuration and variant is accepted and yields that snapshot's
\* known (order included), despawn_times, unknown, altitudes and cell_points.
C2_RoundTrip == [](C2_Unpickled) /\ [][C2_Pickled]_vars

\* a registry restored from a snapshot this same model pickled
C2_Witness ==
    /\ last = Call("unpickle", <<>>, TRUE)
    /\ More
    /\ SameConfiguration(file.state)
    /\ known = <<<<PointA, <<1, 1799>>>>, <<PointC, None>>>>
    /\ file.state.known = known
    /\ despawn_times = (1 :> 3599) @@ (3 :> 300)
    /\ cell_points = {PointB}
    /\ altitudes = (PointA :> 12)

\* C3: an unpickle() that returns False leaves known, unknown, despawn_times
\* and altitudes as they were.
C3_RejectionDiscards ==
    [][(last'.op = "unpickle" /\ last'.ret = FALSE)
          => UNCHANGED <<known, unknown, despawn_times, altitudes>>]_vars

HourStart(now) == 3600 * (now \div 3600)

\* hour_start(now) + t, a cycle later when now is past that instant
ExpectedInstant(t, now) ==
    IF now > HourStart(now) + t THEN HourStart(now) + t + 3600
    ELSE HourStart(now) + t

\* C4: a get_despawn_time(id, now) that follows add_known(id, t, p), no
\* update() in between, returns hour_start(now) + t, plus 3600 when now is
\* later than that instant.
C4_AddKnownVisible ==
    [][(/\ last.op = "add_known"
        /\ last'.op = "get_despawn_time"
        /\ last'.args[1] = last.args[1])
          => last'.ret = <<ExpectedInstant(last.args[2], last'.args[2])>>]_vars

\* reconcile stored 3599 for spawn 1, add_known(1, 300, p) followed, and
\* the query at 9000 answers 7200 + 300 + 3600
C4_Witness ==
    /\ last = Call("get_despawn_time", <<1, 9000>>, <<11100>>)
    /\ ~More
    /\ known = <<<<PointA, <<1, 1799>>>>>>
    /\ despawn_times[1] = 300

\* the despawn-second-of-hour of a row: the raw second of a full-hour row,
\* the raw second half a cycle on for the others
ShiftedSecond(spawn) ==
    IF spawn.duration = 60 THEN spawn.despawn_time
    ELSE IF spawn.despawn_time < 1800 THEN spawn.despawn_time + 1800
    ELSE spawn.despawn_time - 1800

\* C5: when update() returns, every row that passed the boundary filter and
\* is fresh has its point in known, mapped to (spawn_id, s), s the raw second
\* of a full-hour row and (raw + 1800) mod 3600 otherwise, within [0, 3600).
C5_HalfCycleShift ==
    last.op = "update" =>
        \A i \in DOMAIN last.args :
            LET spawn == last.args[i] IN
            (Survives(conf, spawn) /\ ~Stale(conf, spawn)) =>
                /\ ShiftedSecond(spawn) \in 0..3599
                /\ \E j \in DOMAIN known :
                       known[j] = <<<<spawn.lat, spawn.lon>>,
                                    <<spawn.spawn_id, ShiftedSecond(spawn)>>>>

\* under a polygon boundary: the half-hour row 3599 of spawn 1 is stored as
\* 1799, the row of spawn 2 is outside the polygon
C5_Witness ==
    /\ last = Call("update", <<Row(1, Fresh, <<30, 3599>>, None),
                               Row(2, Fresh, <<30, 0>>, None)>>, None)
    /\ conf.BOUNDARIES
    /\ known = <<<<PointA, <<1, 1799>>>>>>

\* C7: after_last() is true exactly when known is not empty and the second of
\* the hour is greater than every despawn second of the known points; false
\* when known is empty.
C7_CycleExhausted ==
    last.op = "after_last" =>
        LET timed == {i \in DOMAIN known : known[i][2] # None} IN
        /\ known = EmptyDict => last.ret = FALSE
        /\ timed # {} =>
               last.ret = (\A i \in timed : last.args[1] % 3600 > known[i][2][2])

Range(s) == {s[i] : i \in DOMAIN s}

C6_NoEntry ==
    (last.op = "get_altitude" /\ last.args[3] \in FetchFailures)
        => /\ RoundCoords(last.args[1], conf.ALT_PRECISION) \notin DOMAIN altitudes
           /\ last.ret \in RandomAltitudes

C6_Step ==
    /\ (last'.op = "get_altitude" /\ last'.args[3] \in FetchFailures)
           => altitudes' = altitudes
    /\ (last'.op = "get_altitude" /\ altitudes' # altitudes)
           => last'.args[3] = "ok"
    /\ (/\ last.op = "get_altitude" /\ last.args[3] \in FetchFailures
        /\ last'.op = "get_altitude" /\ last'.args[1] = last.args[1])
           => last'.args[3] # "hit"

\* C6: a get_altitude whose fetch fails (IndexError, KeyError, any other
\* exception) returns a random altitude and leaves the cache as it was, with
\* no entry for the rounded point; the next get_altitude on the point fetches
\* again; only a fetch that succeeds changes the cache.
C6_FallbackNeverCaches == [](C6_NoEntry) /\ [][C6_Step]_vars

\* (1.2, 1.8) rounds to (1.0, 2.0), which the seeded cache does not hold
C6_Witness ==
    /\ last = Call("get_altitude", <<<<12, 18>>, 0, "KeyError">>, 390)
    /\ conf.ALT_PRECISION = 0
    /\ altitudes = (PointB :> 30)

C8_Yields ==
    last.op = "mystery_gen" =>
        LET n == Cardinality(unknown) IN
        /\ Len(last.ret) = n + CellsCount
        /\ {last.ret[i] : i \in 1..n} = unknown
        /\ More => {last.ret[i] : i \in (n + 1)..Len(last.ret)} = cell_points

C8_Step ==
    /\ (last.op = "add_unknown" /\ last'.op = "mystery_gen")
           => last.args[1] \in Range(last'.ret)
    /\ (last.op = "add_known" /\ last'.op = "mystery_gen")
           => last.args[3] \notin Range(last'.ret)

\* C8: mystery_gen run to its end yields each point of unknown once, then
\* (extended variant) each point of cell_points once, and nothing else; it
\* yields p right after add_unknown(p) and does not yield p right after
\* add_known(id, t, p).
C8_UnconfirmedContent == [](C8_Yields) /\ [][C8_Step]_vars

C8_Witness ==
    /\ last = Call("mystery_gen", <<>>, <<PointC, PointB>>)
    /\ More
    /\ unknown = {PointC}
    /\ cell_points = {PointB}

\* C9 as claimed: total_length is |known| + |unknown| (+ |cell_points|).
C9_KnownPointsCounted ==
    last.op = "total_length" =>
        last.ret = Len(known) + Cardinality(unknown)
                     + (IF More THEN Cardinality(cell_points) ELSE 0)

\* C9, amended: total_length is the number of spawn identifiers in
\* despawn_times plus |unknown|, plus |cell_points| in the extended variant.
C9_TotalLength ==
    last.op = "total_length" =>
        last.ret = Cardinality(DOMAIN despawn_times) + Cardinality(unknown)
                     + (IF More THEN Cardinality(cell_points) ELSE 0)

\* the plain variant after add_known alone: one identifier, no known point
C9_Witness ==
    /\ last = Call("total_length", <<>>, 2)
    /\ ~More
    /\ known = EmptyDict
    /\ unknown = {PointB}
    /\ DOMAIN despawn_times = {3}

C10_Answer ==
    last.op = "have_point" =>
        last.ret = (\/ last.args[1] \in Keys(known)
                    \/ last.args[1] \in unknown
                    \/ last.args[1] \in cell_points)

C10_Step ==
    /\ (/\ last.op \in {"add_known", "add_unknown"}
        /\ last'.op = "have_point"
        /\ last'.args[1] = last.args[Len(last.args)])
           => last'.ret = TRUE
    /\ last'.op = "have_point"
           => UNCHANGED <<known, despawn_times, unknown, cell_points, altitudes>>

\* C10: have_point(p) of the extended variant is true exactly when p is a
\* key of known, in unknown or in cell_points; it is true for p right after
\* add_known(id, t, p) or add_unknown(p); it leaves the registry unchanged.
C10_HasSeen == [](C10_Answer) /\ [][C10_Step]_vars

\* before any reconcile: known holds the placeholder of add_known only
C10_Witness ==
    /\ last = Call("have_point", <<PointC>>, TRUE)
    /\ known = <<<<PointC, None>>>>
    /\ unknown = {}
    /\ cell_points = {}

\* C11 as claimed: when update() returns, despawn_times[id] = s for every
\* entry point -> (id, s) of known.
C11_SecondsAgree ==
    last.op = "update" =>
        \A i \in DOMAIN known :
            despawn_times[known[i][2][1]] = known[i][2][2]

\* the rows of the reconcile that ended which update() stored as known
StoredRows ==
    {spawn \in Range(last.args) : Survives(conf, spawn) /\ ~Stale(conf, spawn)}

C11_Stored ==
    last.op = "update" =>
        \A spawn \in StoredRows :
            LET d == despawn_times[spawn.spawn_id] IN
            /\ d = spawn.despawn_time
            /\ \E j \in DOMAIN known :
                   /\ known[j][1] = <<spawn.lat, spawn.lon>>
                   /\ known[j][2][1] = spawn.spawn_id
                   /\ known[j][2][2] =
                          IF spawn.duration = 60 THEN d ELSE (d + 1800) % 3600

C11_Queried ==
    (last.op = "update" /\ last'.op = "get_despawn_time") =>
        \A spawn \in StoredRows :
            spawn.spawn_id = last'.args[1]
                => last'.ret[1] % 3600 = spawn.despawn_time

\* C11, amended: when update() returns, despawn_times[id] is the raw despawn
\* second of the record; the known entry of a full-hour record carries that
\* second and the entry of a half-hour record carries it half a cycle on,
\* modulo 3600; get_despawn_time(id, seen) is congruent to the raw second.
C11_RawSecondStored == [](C11_Stored) /\ [][C11_Queried]_vars

\* the half-hour row 3599: 3599 in despawn_times, 1799 in known
C11_Witness ==
    /\ last = Call("update", <<Row(1, Fresh, <<30, 3599>>, None)>>, None)
    /\ ~conf.BOUNDARIES
    /\ known = <<<<PointA, <<1, 1799>>>>>>
    /\ despawn_times = (1 :> 3599)

\* C12: every entry of known carries a spawn identifier, and that identifier
\* is a key of despawn_times, in every state, the steps of update() included.
C12_KnownConsistent ==
    \A i \in DOMAIN known :
        /\ known[i][2] # None
        /\ known[i][2][1] \in DOMAIN despawn_times

\* C13: known iterates in ascending order of despawn second, every entry
\* carrying one, so that its last entry carries the maximum.
C13_KnownSorted ==
    \A i, j \in DOMAIN known :
        i <= j => /\ known[i][2] # None
                  /\ known[j][2] # None
                  /\ known[i][2][2] <= known[j][2][2]

\* C14: a point of known does not become a member of unknown or cell_points,
\* and add_known(id, t, p) leaves p in neither.
C14_OneDirectional ==
    [][/\ \A p \in Points :
              (p \in Keys(known) /\ p \notin unknown \cup cell_points)
                  => p \notin unknown' \cup cell_points'
       /\ (last'.op = "add_known" /\ pc' = pc /\ upd' = upd)
              => last'.args[3] \notin unknown' \cup cell_points']_vars

\* C15: when update() returns, the point of each row that passed the
\* boundary filter is in unknown and not in known if the row is stale, in
\* known and not in unknown if it is fresh; the point of a row the filter
\* rejected is in no bucket it was not in when update() began.
C15_Classified ==
    [][(pc = "update" /\ pc' = "idle") =>
          \A spawn \in Range(upd.rows) :
              LET point == <<spawn.lat, spawn.lon>> IN
              IF Survives(conf, spawn)
              THEN IF Stale(conf, spawn)
                   THEN point \in unknown' /\ point \notin Keys(known')
                   ELSE point \in Keys(known') /\ point \notin unknown'
              ELSE /\ point \in unknown' => point \in hist.before.unknown
                   /\ point \in Keys(known')
                          => point \in Keys(hist.before.known)]_vars

\* C16: unpickle() of a snapshot whose class version, store fingerprint,
\* boundary fingerprint and last-migration marker match and whose
\* alt_precision differs from conf.ALT_PRECISION returns True; known,
\* unknown, despawn_times (and cell_points) are the snapshot's and altitudes
\* is what the bulk altitude query answered.
C16_PrecisionChanged ==
    (/\ last.op = "unpickle"
     /\ file.kind = "dict"
     /\ ~MissesKey(file.state)
     /\ file.state.class_version = ClassVersion
     /\ file.state.db_hash = DbHash(conf)
     /\ file.state.bounds_hash = BoundsHash(conf)
     /\ file.state.last_migration = conf.LAST_MIGRATION
     /\ "alt_precision" \in DOMAIN file.state
     /\ file.state.alt_precision # conf.ALT_PRECISION)
        => /\ last.ret = TRUE
           /\ known = file.state.known
           /\ unknown = file.state.unknown
           /\ despawn_times = file.state.despawn_times
           /\ More => cell_points = file.state.cell_points
           /\ Len(last.args) = 1
           /\ altitudes = last.args[1]

\* pickled at precision 0 with the altitude of (1.0, 2.0), restored at
\* precision 1 with the bulk answer for (3.0, 4.0)
C16_Witness ==
    /\ last = Call("unpickle", <<(PointB :> 30)>>, TRUE)
    /\ conf.ALT_PRECISION = 1
    /\ file.state.alt_precision = 0
    /\ file.state.altitudes = (PointA :> 12)
    /\ altitudes = (PointB :> 30)
    /\ known = <<<<PointA, <<1, 1799>>>>>>
    /\ despawn_times = (1 :> 3599)

\* known as a reader finds it while update() runs holds every entry of the
\* mapping from before the reconcile and, besides these, placeholders of
\* add_known only
C17_OldWhileRunning ==
    pc = "update" =>
        /\ \A i \in DOMAIN hist.before.known :
               hist.before.known[i][1] \in Keys(known)
        /\ \A i \in DOMAIN known :
               known[i] \in Range(hist.before.known) \/ known[i][2] = None

\* the points of the rows read that update() stores as known
BuiltPoints ==
    {<<spawn.lat, spawn.lon>> :
        spawn \in {r \in Range(upd.rows) :
                      Survives(conf, r) /\ ~Stale(conf, r)}}

C17_Step ==
    /\ (pc' = "update" /\ (pc = "idle" \/ upd' # upd)) => known' = known
    /\ (pc = "update" /\ pc' = "idle") =>
           /\ Keys(known') = BuiltPoints
           /\ Len(known') = Cardinality(BuiltPoints)
           /\ \A i, j \in DOMAIN known' :
                  i <= j => known'[i][2][2] <= known'[j][2][2]
    /\ last'.op = "items" => last'.ret = known /\ known' = known
    /\ last'.op = "after_last" =>
           /\ known' = known
           /\ last'.ret = (/\ known # EmptyDict
                           /\ known[Len(known)][2] # None
                           /\ last'.args[1] % 3600 > known[Len(known)][2][2])
    /\ last'.op = "have_point" =>
           /\ known' = known
           /\ last'.args[1] \in Keys(known) => last'.ret = TRUE

\* C17: no step of update() but its last changes known, and the last one
\* replaces it by the complete mapping of the rows read, sorted by second; a
\* reader (items, after_last, have_point) called at any step answers from
\* known as it stands, which until then is the mapping from before.
C17_AtomicPublication == [](C17_OldWhileRunning) /\ [][C17_Step]_vars

\* items() while the second reconcile has read one row: the reader sees the
\* mapping of the first reconcile, not the one being built
C17_Witness ==
    /\ pc = "update"
    /\ upd.known = <<<<PointA, <<1, 1800>>>>>>
    /\ last = Call("items", <<>>, <<<<PointB, <<2, 1799>>>>>>)
    /\ known = <<<<PointB, <<2, 1799>>>>>>

\* the registry once the mutation `call` was made on registry reg
After(reg, call) ==
    LET point == call.args[Len(call.args)] IN
    IF call.op = "add_known"
    THEN [known |-> IF More THEN SetItem(reg.known, point, None) ELSE reg.known,
          despawn_times |-> Put(reg.despawn_times, call.args[1], call.args[2]),
          unknown |-> reg.unknown \ {point},
          cell_points |-> reg.cell_points \ {point}]
    ELSE [reg EXCEPT !.unknown = @ \cup {point},
                     !.cell_points = @ \ {point}]

\* despawn_times, unknown and the mapping built once update() read the rows
RECURSIVE ReadRows(_, _)
ReadRows(acc, rows) ==
    IF rows = <<>> THEN acc
    ELSE LET spawn == Head(rows)
             point == <<spawn.lat, spawn.lon>>
         IN  ReadRows(
                 IF ~Survives(conf, spawn) THEN acc
                 ELSE IF Stale(conf, spawn)
                      THEN [acc EXCEPT !.unknown = @ \cup {point}]
                      ELSE [acc EXCEPT
                              !.despawn_times =
                                  Put(@, spawn.spawn_id, spawn.despawn_time),
                              !.known = SetItem(@, point,
                                  <<spawn.spawn_id,
                                    IF spawn.duration = 60
                                    THEN spawn.despawn_time
                                    ELSE (spawn.despawn_time + 1800) % 3600>>)],
                 Tail(rows))

\* the registry once a whole update() over the rows ran on registry reg
Reconciled(reg, rows) ==
    LET read == ReadRows([reg EXCEPT !.known = EmptyDict], rows)
    IN  [read EXCEPT !.known = SortedItems(@)]

\* C18: an update() during which one add_known or add_unknown call was made
\* leaves known, unknown, cell_points and despawn_times as the call followed
\* by the whole update(), or the whole update() followed by the call, would.
C18_Serialized ==
    [][(/\ pc = "update" /\ pc' = "idle"
        /\ last.op \in {"add_known", "add_unknown"})
          => \/ Registry' = Reconciled(After(hist.before, last), upd.rows)
             \/ Registry' = After(Reconciled(hist.before, upd.rows), last)]_vars

\* what the iteration yielded and has yet to yield
C19_Sequence == gen.yielded \o gen.rest

C19_Copy ==
    gen.pc \in {"running", "done"} =>
        LET n == Cardinality(gen.unknown) IN
        /\ Len(C19_Sequence) = n + Cardinality(gen.cell_points)
        /\ {C19_Sequence[i] : i \in 1..n} = gen.unknown
        /\ {C19_Sequence[i] : i \in (n + 1)..Len(C19_Sequence)}
               = gen.cell_points
        /\ gen.pc = "done" => gen.rest = <<>>

C19_Step ==
    /\ (gen.pc = "running" /\ gen'.pc \in {"running", "done"}) =>
           /\ gen'.unknown = gen.unknown
           /\ gen'.cell_points = gen.cell_points
           /\ gen'.yielded \o gen'.rest = C19_Sequence
           /\ gen' # gen => Len(gen'.rest) < Len(gen.rest) \/ gen'.pc = "done"
    /\ (gen.pc = "created" /\ gen'.pc \in {"running", "done"}) =>
           /\ gen'.unknown = unknown
           /\ gen'.cell_points = (IF More THEN cell_points ELSE {})
    /\ last'.op = "mystery_gen:next" =>
           /\ gen'.yielded # <<>>
           /\ last'.ret = gen'.yielded[Len(gen'.yielded)]

\* C19: once the iteration of mystery_gen() has begun, add_known, add_unknown
\* and changes of cell_points between its steps change nothing of what it
\* yields: each step yields the next member of the copies, the iteration
\* ends after as many steps as the copies had members, having yielded
\* exactly the members unknown (then cell_points) had when it began; a
\* generator made afterwards copies the sets as they are then.
C19_PointInTimeCopy == [](C19_Copy) /\ [][C19_Step]_vars

\* (5.0, 6.0) was made known after the first element and is yielded all the
\* same
C19_Witness ==
    /\ last.op = "mystery_gen:stop"
    /\ gen.pc = "done"
    /\ gen.unknown = {PointA, PointC}
    /\ gen.cell_points = {PointB}
    /\ gen.yielded = <<PointA, PointC, PointB>>
    /\ unknown = {PointA}
    /\ PointC \in Keys(known)

C20_Answer ==
    last.op = "get_despawn_time" =>
        LET spawn_id == last.args[1]
            seen     == last.args[2]
        IN  IF spawn_id \notin DOMAIN despawn_times THEN last.ret = None
            ELSE LET d       == despawn_times[spawn_id]
                     instant == HourStart(seen) + d
                 IN  d \in 0..3599 =>
                         /\ last.ret # None
                         /\ last.ret[1] = IF seen <= instant THEN instant
                                          ELSE instant + 3600
                         /\ seen <= last.ret[1]
                         /\ last.ret[1] < seen + 3600
                         /\ last.ret[1] % 3600 = d

C20_Step ==
    last'.op = "get_despawn_time"
        => UNCHANGED <<known, despawn_times, unknown, cell_points, altitudes>>

\* C20: for despawn_times[id] = d in [0, 3600), get_despawn_time(id, seen)
\* returns hour_start(seen) + d when seen is not later than that instant and
\* hour_start(seen) + d + 3600 otherwise, a result r with seen <= r < seen +
\* 3600 and r mod 3600 = d; for an id that is not in despawn_times it
\* returns None; it leaves the registry unchanged.
C20_DespawnInstant == [](C20_Answer) /\ [][C20_Step]_vars

\* seen on the instant itself: the half-hour row stored second 0, seen is
\* the start of the hour, and the answer is seen
C20_Witness ==
    /\ last = Call("get_despawn_time", <<1, 7200>>, <<7200>>)
    /\ despawn_times[1] = 0
    /\ known = <<<<PointA, <<1, 1800>>>>>>

====
